---- MODULE Spec2Model ----
(***************************************************************************)
(* Model of mcmodfilelocaliztion: src/src/main.rs (get_mod_info,           *)
(* process_file, main), src/src/modrinthapi.rs (ModrinthApi) and           *)
(* src/src/mcmoddb.rs (ModTranslationDb).                                  *)
(*                                                                         *)
(* Rust Strings that end up in a file name are sequences of one-character  *)
(* strings, so that format!, replace, trim and starts_with are computed    *)
(* character by character.  Strings that the code only compares with       *)
(* literals (client_side, server_side) are TLA+ strings.                   *)
(* Option<T> is a sequence of length 0 (None) or 1 (Some).                 *)
(***************************************************************************)
EXTENDS Integers, Sequences, FiniteSets, TLC

VARIABLES
    archive,        \* get_mod_info: the archive behind the path
    info,           \* get_mod_info: Option<Result<ModInfo>>, None before the call
    lin,            \* resolver: the inputs of lines 89-149 of process_file
    label,          \* resolver: Option<label record>, None before the call
    api_cache,      \* ModrinthApi.api_cache: mod id -> Option<ModrinthProject>
    sent,           \* SpecApi: number of HTTP requests issued so far, per mod id
    ret,            \* get_modrinth_data: the last call and what it returned
    pc,             \* main: position
    exit,           \* main: "none" while running, then "success" or "failure"
    env,            \* main: what the process finds outside itself
    category_map,   \* AppState.category_map
    fs,             \* the target directory: file name -> entry
    iter,           \* read_dir: names still to yield, and renamed files yielded again
    last,           \* process_file: the last call: path, target, outcome, and the
                    \* outcome of the archive's previous handling if that had
                    \* the same answers
    hist,           \* per archive: the answers and outcome of its last handling
    log             \* main: errors written by eprintln!, and archives processed

vars == <<archive, info, lin, label, api_cache, sent, ret, pc, exit, env,
          category_map, fs, iter, last, hist, log>>

----------------------------------------------------------------------------
(* Option and Result *)

None == <<>>
Some(v) == <<v>>
IsSome(o) == Len(o) = 1
Unwrap(o) == o[1]
\* Option::or
OptOr(a, b) == IF IsSome(a) THEN a ELSE b
\* Option::unwrap_or_else
UnwrapOr(o, d) == IF IsSome(o) THEN o[1] ELSE d

Ok(v) == [ok |-> TRUE, val |-> v]
Err == [ok |-> FALSE, val |-> <<>>]

----------------------------------------------------------------------------
(* String helpers (str::starts_with, trim, splitn, replace, join) *)

White == {" ", "\t"}

StartsWith(s, p) == Len(s) >= Len(p) /\ SubSeq(s, 1, Len(p)) = p

RECURSIVE TrimStart(_)
TrimStart(s) ==
    IF s = <<>> THEN <<>>
    ELSE IF Head(s) \in White THEN TrimStart(Tail(s)) ELSE s

RECURSIVE TrimEnd(_)
TrimEnd(s) ==
    IF s = <<>> THEN <<>>
    ELSE IF s[Len(s)] \in White THEN TrimEnd(SubSeq(s, 1, Len(s) - 1)) ELSE s

Trim(s) == TrimEnd(TrimStart(s))

\* line.splitn(2, ':').nth(1).unwrap_or("")
RECURSIVE AfterFirstColon(_)
AfterFirstColon(s) ==
    IF s = <<>> THEN <<>>
    ELSE IF Head(s) = ":" THEN Tail(s) ELSE AfterFirstColon(Tail(s))

RECURSIVE Join(_, _)
Join(ss, sep) ==
    IF ss = <<>> THEN <<>>
    ELSE IF Len(ss) = 1 THEN ss[1]
    ELSE ss[1] \o sep \o Join(Tail(ss), sep)

S_placeholder ==
    <<"$", "{", "f", "i", "l", "e", ".", "j", "a", "r",
      "V", "e", "r", "s", "i", "o", "n", "}">>
S_implver ==
    <<"I", "m", "p", "l", "e", "m", "e", "n", "t", "a", "t", "i", "o", "n",
      "-", "V", "e", "r", "s", "i", "o", "n", ":">>
S_unknown == <<"u", "n", "k", "n", "o", "w", "n">>
S_jar == <<".", "j", "a", "r">>

----------------------------------------------------------------------------
(* get_mod_info: main.rs 33-70 *)

\* A manifest line as reader.lines() yields it: text, or a read/UTF-8 error.
Line(t) == [err |-> FALSE, text |-> t]
BadLine == [err |-> TRUE, text |-> <<>>]

\* ScanLines with the lines that fail to read skipped (lines().flatten())
\* instead of returned as the error.
RECURSIVE ScanLinesSkipBad(_)
ScanLinesSkipBad(lines) ==
    IF lines = <<>> THEN Err
    ELSE IF Head(lines).err THEN ScanLinesSkipBad(Tail(lines))
    ELSE IF StartsWith(Head(lines).text, S_implver)
         THEN Ok(Trim(AfterFirstColon(Head(lines).text)))
    ELSE ScanLinesSkipBad(Tail(lines))

\* The for loop of extract_manifest_version: `line?` returns the error,
\* the first line with the prefix returns its trimmed remainder.
RECURSIVE ScanLines(_)
ScanLines(lines) ==
    IF lines = <<>> THEN Err
    ELSE IF Head(lines).err THEN Err
    ELSE IF StartsWith(Head(lines).text, S_implver)
         THEN Ok(Trim(AfterFirstColon(Head(lines).text)))
    ELSE ScanLines(Tail(lines))

\* manifest: Option<lines>, None when the archive has no META-INF/MANIFEST.MF
extract_manifest_version(manifest) ==
    IF ~IsSome(manifest) THEN Err ELSE ScanLines(Unwrap(manifest))

\* version: main.rs 59-63
ResolveVersion(m, manifest) ==
    IF m.version = S_placeholder
    THEN LET r == extract_manifest_version(manifest)
         IN  IF r.ok THEN r.val ELSE S_unknown
    ELSE m.version

\* a: [readable, toml, mods, manifest].  File::open / ZipArchive::new fail on
\* an unreadable archive, by_name or toml::from_str on a missing or malformed
\* neoforge.mods.toml, first() on an empty mods list.
get_mod_info(a) ==
    IF ~a.readable THEN Err
    ELSE IF a.toml # "ok" THEN Err
    ELSE IF a.mods = <<>> THEN Err
    ELSE LET m == a.mods[1]
         IN  Ok([mod_id |-> m.mod_id,
                 display_name |-> m.display_name,
                 version |-> ResolveVersion(m, a.manifest)])

----------------------------------------------------------------------------
(* ModTranslationDb::get_chinese_name: mcmoddb.rs 31-43 *)

\* q: the outcome of fetch_optional: Err, Ok(None) or Ok(Some(ChineseName)).
\* .ok().flatten().map(|r| r.ChineseName)
get_chinese_name(q) == IF q.ok THEN q.val ELSE None

----------------------------------------------------------------------------
(* The resolver of process_file: main.rs 89-149 *)

\* main.rs 98-100
final_name(db_name, modinfo) ==
    UnwrapOr(OptOr(db_name, modinfo.display_name), modinfo.mod_id)

\* side_code with the codes of "optional" and "required" exchanged
side_code_swapped(s) ==
    CASE s = "unsupported" -> -1
      [] s = "optional" -> 1
      [] s = "required" -> 0
      [] OTHER -> -99

\* main.rs 107-118
side_code(s) ==
    CASE s = "unsupported" -> -1
      [] s = "optional" -> 0
      [] s = "required" -> 1
      [] OTHER -> -99

\* main.rs 119-128
side_match(c, s) ==
    CASE c = 1 /\ s = 1 -> <<"[", "C", "&", "S", "]">>
      [] c = 0 /\ s = 0 -> <<"[", "C", "|", "S", "]">>
      [] c = -1 /\ s = -1 -> <<"[", "T", "o", "x", "i", "c", "]">>
      [] c = 1 /\ s = 0 -> <<"[", "C", "]">>
      [] c = 0 /\ s = 1 -> <<"[", "S", "]">>
      [] c = 1 /\ s = -1 -> <<"[", "!", "S", "]">>
      [] c = -1 /\ s = 1 -> <<"[", "!", "C", "]">>
      [] OTHER -> <<>>

\* data: Option<ModrinthProject>; main.rs 103-128
side_tag(data) ==
    IF IsSome(data)
    THEN side_match(side_code(Unwrap(data).client_side),
                    side_code(Unwrap(data).server_side))
    ELSE <<>>

\* translate with unwrap_or_default() in place of unwrap_or(cat.clone())
translate_or_default(cmap, cat) == IF cat \in DOMAIN cmap THEN cmap[cat] ELSE <<>>

\* state.category_map.get(cat).cloned().unwrap_or(cat.clone()); cmap is a
\* function whose domain is the set of keys of the HashMap
translate(cmap, cat) == IF cat \in DOMAIN cmap THEN cmap[cat] ELSE cat

\* main.rs 131-135
translated_cats(cats, cmap) == [i \in 1..Len(cats) |-> translate(cmap, cats[i])]

\* main.rs 104, 131-138
category_tag(data, cmap) ==
    IF IsSome(data)
    THEN LET tc == translated_cats(Unwrap(data).categories, cmap)
         IN  IF tc # <<>>
             THEN <<"[">> \o Join(tc, <<"]", "[">>) \o <<"]">>
             ELSE <<>>
    ELSE <<>>

\* main.rs 142-145
new_name(st, ct, fname, version) ==
    st \o ct \o fname \o <<"-">> \o version \o S_jar

Unsafe == {"/", "\\", ":", "*", "?", "\"", "<", ">", "|"}

\* main.rs 146-149
safe_name(n) == SelectSeq(n, LAMBDA c : c \notin Unsafe)

\* Everything process_file computes between the lookups and the rename.
Resolve(modinfo, db_name, data, cmap) ==
    LET fname == final_name(db_name, modinfo)
        st == side_tag(data)
        ct == category_tag(data, cmap)
        nn == new_name(st, ct, fname, modinfo.version)
    IN  [final_name |-> fname, side_tag |-> st, category_tag |-> ct,
         new_name |-> nn, safe_name |-> safe_name(nn)]

----------------------------------------------------------------------------
(* Paths.  Every path main handles lies in the target directory, so a path   *)
(* is its file name.                                                         *)

RECURSIVE LastDot(_)
LastDot(n) ==
    IF n = <<>> THEN 0
    ELSE IF n[Len(n)] = "." THEN Len(n)
    ELSE LastDot(SubSeq(n, 1, Len(n) - 1))

\* Path::extension: nothing without a dot, and nothing when the only dot
\* begins the name
extension(n) ==
    IF LastDot(n) <= 1 THEN None ELSE Some(SubSeq(n, LastDot(n) + 1, Len(n)))

\* Path::file_stem
file_stem(n) == IF LastDot(n) <= 1 THEN n ELSE SubSeq(n, 1, LastDot(n) - 1)

\* new_path built with set_extension(safe_name) in place of set_file_name
new_path_set_extension(path, safe) == file_stem(path) \o <<".">> \o safe

\* main.rs 151-152: path.clone() with its file name replaced
new_path(path, safe) == safe

\* the test of main.rs 162 without `!new_path.exists()`
should_rename_overwriting(path, np, fsys) == path # np

\* main.rs 162; exists() is true of files and of directories
should_rename(path, np, fsys) == path # np /\ np \notin DOMAIN fsys

\* fs::rename, main.rs 163 (it replaces whatever file is at np)
rename(fsys, p, np) ==
    [n \in (DOMAIN fsys \ {p}) \cup {np} |-> IF n = np THEN fsys[p] ELSE fsys[n]]

----------------------------------------------------------------------------
(* ModrinthApi::get_modrinth_data: modrinthapi.rs 29-44 *)

\* get_modrinth_data reading the cache with `if let Some(Some(cached))`:
\* a cached "no record" is not taken as a hit
get_modrinth_data_positive_only(cache, mod_id, net) ==
    IF mod_id \in DOMAIN cache /\ IsSome(cache[mod_id])
    THEN [data |-> cache[mod_id], cache |-> cache, sent |-> FALSE]
    ELSE IF net.kind = "transport"
    THEN [data |-> None, cache |-> cache, sent |-> TRUE]
    ELSE LET data == IF net.kind = "ok" THEN Some(net.body) ELSE None
         IN  [data |-> data,
              cache |-> (mod_id :> data) @@ cache,
              sent |-> TRUE]

\* net: what the HTTP request meets if it is sent:
\*   "transport"  send() fails              (line 34, .ok()? returns None)
\*   "status"     a non-success status      (line 39)
\*   "decode"     success, body is not a ModrinthProject (line 37, .ok())
\*   "ok"         success, body decodes to net.body
\* The result carries the returned Option, the cache after the call and
\* whether a request was sent.
get_modrinth_data(cache, mod_id, net) ==
    IF mod_id \in DOMAIN cache
    THEN [data |-> cache[mod_id], cache |-> cache, sent |-> FALSE]
    ELSE IF net.kind = "transport"
    THEN [data |-> None, cache |-> cache, sent |-> TRUE]
    ELSE LET data == IF net.kind = "ok" THEN Some(net.body) ELSE None
         IN  [data |-> data,
              cache |-> (mod_id :> data) @@ cache,
              sent |-> TRUE]

----------------------------------------------------------------------------
(* Bounds and input sets *)

MaxCats == 2        \* longest category list of a registry record
MaxLines == 2       \* longest MANIFEST.MF
MaxSent == 2        \* requests per mod id after which the model stops calling

SeqsUpTo(S, n) == UNION {[1..k -> S] : k \in 0..n}

ModIds == {<<"x">>, <<"y">>}
Cats == {<<"a">>, <<"b">>}
Sides == {"unsupported", "optional", "required", "unknown"}

FullCategoryMap == (<<"a">> :> <<"A">>) @@ (<<"b">> :> <<"B">>)
CategoryMaps == {[c \in S |-> FullCategoryMap[c]] : S \in SUBSET Cats}

Projects ==
    [client_side : Sides, server_side : Sides, categories : SeqsUpTo(Cats, MaxCats)]

NetKinds == {"transport", "status", "decode", "ok"}
NetOutcomes(bodies) ==
    {[kind |-> k, body |-> CHOOSE b \in bodies : TRUE] : k \in NetKinds \ {"ok"}}
    \cup {[kind |-> "ok", body |-> b] : b \in bodies}

S_ver == <<"1", ".", "0">>
ManifestLines ==
    { Line(<<"M", ":", " ", "1">>),
      Line(S_implver \o <<" ">> \o S_ver),
      Line(S_implver \o <<"2", ":", "3", " ">>),
      BadLine }
Manifests == {None} \cup {Some(ls) : ls \in SeqsUpTo(ManifestLines, MaxLines)}

DisplayNames == {None, Some(<<>>), Some(<<"D", ":">>)}
Localized == {None, Some(<<>>), Some(<<"L">>)}

TomlMods ==
    [mod_id : {<<"x">>}, version : {S_placeholder, S_ver},
     display_name : {None, Some(<<"D">>)}]
OtherMod == [mod_id |-> <<"y">>, version |-> <<"9">>, display_name |-> None]
Archives ==
    [readable : BOOLEAN, toml : {"missing", "malformed", "ok"},
     mods : {<<>>} \cup {<<m>> : m \in TomlMods} \cup {<<m, OtherMod>> : m \in TomlMods},
     manifest : Manifests]

ModInfos == [mod_id : {<<"x">>}, display_name : DisplayNames, version : {S_ver}]
LabelInputs ==
    [modinfo : ModInfos, db : Localized,
     data : {None} \cup {Some(p) : p \in Projects},
     cmap : CategoryMaps]

----------------------------------------------------------------------------
(* Variables a specification does not use stay at these values *)

NoCall == [mod_id |-> <<>>, data |-> None, hit |-> FALSE]
NoIter == [todo |-> {}, again |-> 0]
NoLast == [path |-> <<>>, target |-> <<>>, outcome |-> "none", prev |-> "none"]
NoEnv == [catfile |-> "absent", db_ok |-> TRUE, is_dir |-> TRUE,
          read_dir_ok |-> TRUE, run |-> 0, dir0 |-> <<>>]

IdleInfo == archive = None /\ info = None
IdleLabel == lin = None /\ label = None
IdleApi == api_cache = <<>> /\ sent = [i \in ModIds |-> 0] /\ ret = NoCall
IdleRun ==
    /\ pc = "idle" /\ exit = "none" /\ env = NoEnv /\ category_map = <<>>
    /\ fs = <<>> /\ iter = NoIter /\ last = NoLast /\ hist = <<>> /\ log = <<>>

infoVars == <<archive, info>>
labelVars == <<lin, label>>
apiVars == <<api_cache, sent, ret>>
runVars == <<pc, exit, env, category_map, fs, iter, last, hist, log>>

----------------------------------------------------------------------------
(* SpecInfo: get_mod_info applied to every archive of Archives *)

InitInfo == archive \in Archives /\ info = None /\ IdleLabel /\ IdleApi /\ IdleRun

GetModInfo ==
    /\ info = None
    /\ info' = Some(get_mod_info(archive))
    /\ UNCHANGED <<archive, labelVars, apiVars, runVars>>

SpecInfo == InitInfo /\ [][GetModInfo]_vars

----------------------------------------------------------------------------
(* SpecLabel: the resolver applied to every input of LabelInputs *)

InitLabel == lin \in LabelInputs /\ label = None /\ IdleInfo /\ IdleApi /\ IdleRun

ResolveLabel ==
    /\ label = None
    /\ label' = Some(Resolve(lin.modinfo, lin.db, lin.data, lin.cmap))
    /\ UNCHANGED <<lin, infoVars, apiVars, runVars>>

SpecLabel == InitLabel /\ [][ResolveLabel]_vars

----------------------------------------------------------------------------
(* SpecApi: any sequence of get_modrinth_data calls on one ModrinthApi *)

ApiProjects ==
    { [client_side |-> "required", server_side |-> "optional", categories |-> <<<<"a">>>>],
      [client_side |-> "optional", server_side |-> "required", categories |-> <<>>] }

InitApi == IdleApi /\ IdleInfo /\ IdleLabel /\ IdleRun

Call(id, net) ==
    LET r == get_modrinth_data(api_cache, id, net)
    IN  /\ r.sent => sent[id] < MaxSent
        /\ api_cache' = r.cache
        /\ sent' = [sent EXCEPT ![id] = @ + (IF r.sent THEN 1 ELSE 0)]
        /\ ret' = [mod_id |-> id, data |-> r.data, hit |-> id \in DOMAIN api_cache]
        /\ UNCHANGED <<infoVars, labelVars, runVars>>

NextApi == \E id \in ModIds, net \in NetOutcomes(ApiProjects) : Call(id, net)

SpecApi == InitApi /\ [][NextApi]_vars

----------------------------------------------------------------------------
(* The world of SpecRun: archives, translation database, registry *)

MaxFiles == 2       \* entries of the target directory when the first run starts
MaxReyields == 1    \* times a run's read_dir yields a file it has already yielded
MaxRuns == 2        \* runs of the program over the same directory

ModX == [mod_id |-> <<"x">>, version |-> S_ver, display_name |-> None]
ModY == [mod_id |-> <<"y">>, version |-> S_ver, display_name |-> None]
GoodArchive(m) == [readable |-> TRUE, toml |-> "ok", mods |-> <<m>>, manifest |-> None]
\* archives by identity: two of mod x, one of mod y, one without metadata
ArchivePool ==
    <<GoodArchive(ModX), GoodArchive(ModX), GoodArchive(ModY),
      [readable |-> TRUE, toml |-> "missing", mods |-> <<>>, manifest |-> None]>>

Entries == {[kind |-> "file", id |-> i] : i \in DOMAIN ArchivePool}
           \cup {[kind |-> "dir", id |-> 0]}
InitialNames ==
    { <<"a", ".", "j", "a", "r">>,
      <<"L", "-">> \o S_ver \o S_jar, <<"n", ".", "t", "x", "t">> }
\* directories of at most MaxFiles entries, no entry under two names
InitialDirs ==
    { d \in UNION {[N -> Entries] : N \in SUBSET InitialNames} :
        /\ Cardinality(DOMAIN d) <= MaxFiles
        /\ \A m, n \in DOMAIN d : d[m] = d[n] => m = n }

\* the rows of ModData.db and the projects of the registry
DbRows == (<<"x">> :> Some(<<"L">>)) @@ (<<"y">> :> None)
Registry ==
    (<<"x">> :> [client_side |-> "required", server_side |-> "optional",
                 categories |-> << <<"a">> >>])
    @@ (<<"y">> :> [client_side |-> "unknown", server_side |-> "required",
                    categories |-> <<>>])
\* the content of a well-formed categories.json
FileCategoryMap == (<<"a">> :> <<"A">>)

\* fetch_optional of mcmoddb.rs 33-39: an error when the database cannot
\* be queried, else the row of the mod, if any
fetch_optional(db_up, mod_id) == IF db_up THEN Ok(DbRows[mod_id]) ELSE Err

\* what GET {endpoint}/project/{mod_id} meets: modrinthapi.rs 33-37
http_get(net_kind, mod_id) == [kind |-> net_kind, body |-> Registry[mod_id]]

----------------------------------------------------------------------------
(* process_file: main.rs 72-168 *)

\* db_up: whether the translation query can run, net_kind: what the HTTP
\* request meets if one is sent, rename_ok: whether fs::rename succeeds.
\* The result: Ok or Err, the directory and the cache after the call,
\* whether a request was sent.
process_file(path, fsys, cache, cmap, db_up, net_kind, rename_ok) ==
    LET r == get_mod_info(ArchivePool[fsys[path].id])
    IN  IF ~r.ok
        THEN [ok |-> FALSE, fs |-> fsys, cache |-> cache, sent |-> FALSE,
              mod_id |-> <<>>, answers |-> None, target |-> <<>>,
              outcome |-> "unreadable"]
        ELSE
        LET modinfo == r.val
            db_name == get_chinese_name(fetch_optional(db_up, modinfo.mod_id))
            api == get_modrinth_data(cache, modinfo.mod_id,
                                     http_get(net_kind, modinfo.mod_id))
            lab == Resolve(modinfo, db_name, api.data, cmap)
            np == new_path(path, lab.safe_name)
            base == [cache |-> api.cache, sent |-> api.sent,
                     mod_id |-> modinfo.mod_id,
                     answers |-> Some([db |-> db_name, data |-> api.data, cmap |-> cmap]),
                     target |-> np]
        IN  IF should_rename(path, np, fsys)
            THEN IF rename_ok
                 THEN [ok |-> TRUE, fs |-> rename(fsys, path, np),
                       outcome |-> "renamed"] @@ base
                 ELSE [ok |-> FALSE, fs |-> fsys, outcome |-> "rename_failed"] @@ base
            ELSE [ok |-> TRUE, fs |-> fsys,
                  outcome |-> IF path = np THEN "same" ELSE "skipped"] @@ base

----------------------------------------------------------------------------
(* main: main.rs 205-247 *)

\* load_category_map with a missing categories.json taken as an error
load_category_map_strict(catfile) ==
    IF catfile = "ok" THEN Ok(FileCategoryMap) ELSE Err

\* main.rs 209-216; catfile: "absent", "unreadable" (read_to_string fails),
\* "malformed" (serde_json::from_str fails) or "ok"
load_category_map(catfile) ==
    IF catfile # "absent"
    THEN IF catfile = "unreadable" THEN Err
         ELSE IF catfile = "malformed" THEN Err
         ELSE Ok(FileCategoryMap)
    ELSE Ok(<<>>)

\* ModTranslationDb::init, mcmoddb.rs 18-29: download and unpack when the
\* local file is missing, then connect
db_init(db_exists, fetch_ok, connect_ok) ==
    IF ~db_exists /\ ~fetch_ok THEN Err
    ELSE IF ~connect_ok THEN Err
    ELSE Ok(<<>>)

\* the loop body with `process_file(path, state_clone).await?`
on_result_propagate(ok, path, lg) ==
    [abort |-> ~ok, log |-> lg]

\* main.rs 240-242: an Err of process_file is printed and the loop goes on
on_result(ok, path, lg) ==
    [abort |-> FALSE,
     log |-> IF ok THEN lg ELSE [lg EXCEPT !.errors = @ + 1]]

NoLog == [errors |-> 0, listed |-> {}, processed |-> {}, entry_err |-> FALSE]

StartIn(dirs) ==
    /\ fs \in dirs
    /\ pc = "start" /\ exit = "none"
    /\ env = [catfile |-> "absent", db_ok |-> TRUE, is_dir |-> TRUE,
              read_dir_ok |-> TRUE, run |-> 1, dir0 |-> fs]
    /\ category_map = <<>> /\ iter = NoIter /\ last = NoLast /\ hist = <<>>
    /\ log = NoLog
    /\ IdleApi /\ IdleInfo /\ IdleLabel

InitRun == StartIn(InitialDirs)

Fail == pc' = "done" /\ exit' = "failure"

\* main.rs 208-216
LoadCategoryMap(catfile) ==
    /\ pc = "start"
    /\ env' = [env EXCEPT !.catfile = catfile]
    /\ LET r == load_category_map(catfile)
       IN  IF r.ok
           THEN category_map' = r.val /\ pc' = "db" /\ exit' = exit
           ELSE category_map' = category_map /\ Fail
    /\ UNCHANGED <<fs, iter, last, hist, log, api_cache, sent, ret, infoVars, labelVars>>

\* main.rs 217-227
InitDb(db_exists, fetch_ok, connect_ok) ==
    /\ pc = "db"
    /\ LET r == db_init(db_exists, fetch_ok, connect_ok)
       IN  /\ env' = [env EXCEPT !.db_ok = r.ok]
           /\ IF r.ok THEN pc' = "dir" /\ exit' = exit ELSE Fail
    /\ api_cache' = <<>>
    /\ UNCHANGED <<category_map, fs, iter, last, hist, log, sent, ret, infoVars, labelVars>>

\* main.rs 229-233: is_dir, then read_dir(folder)?
OpenDir(is_dir, read_dir_ok) ==
    /\ pc = "dir"
    /\ env' = [env EXCEPT !.is_dir = is_dir, !.read_dir_ok = read_dir_ok]
    /\ IF is_dir /\ read_dir_ok
       THEN /\ pc' = "loop" /\ exit' = exit
            /\ iter' = [todo |-> DOMAIN fs, again |-> 0]
            /\ log' = [log EXCEPT !.listed =
                  {n \in DOMAIN fs : fs[n].kind = "file" /\ extension(n) = Some(<<"j", "a", "r">>)}]
       ELSE Fail /\ UNCHANGED <<iter, log>>
    /\ UNCHANGED <<category_map, fs, last, hist, api_cache, sent, ret, infoVars, labelVars>>

\* main.rs 234: `let entry = entry?;` on an entry the iterator fails to read
EntryError ==
    /\ pc = "loop"
    /\ Fail
    /\ log' = [log EXCEPT !.entry_err = TRUE]
    /\ UNCHANGED <<env, category_map, fs, iter, last, hist, api_cache, sent, ret, infoVars, labelVars>>

\* main.rs 235-236: an entry that is no regular file named *.jar is passed over
SkipEntry(name) ==
    /\ pc = "loop" /\ name \in iter.todo
    /\ ~(fs[name].kind = "file" /\ extension(name) = Some(<<"j", "a", "r">>))
    /\ iter' = [iter EXCEPT !.todo = @ \ {name}]
    /\ UNCHANGED <<pc, exit, env, category_map, fs, last, hist, log, api_cache, sent, ret, infoVars, labelVars>>

\* main.rs 235-243: one .jar entry.  The directory order is the file
\* system's; whether read_dir later yields the name a rename has created
\* is unspecified (reyield); it happens at most MaxReyields times in a run.
ProcessEntry(name, db_up, net_kind, rename_ok) ==
    /\ pc = "loop" /\ name \in iter.todo
    /\ fs[name].kind = "file" /\ extension(name) = Some(<<"j", "a", "r">>)
    /\ \E r \in {process_file(name, fs, api_cache, category_map,
                                db_up, net_kind, rename_ok)} :
       \E h \in {on_result(r.ok, name, [log EXCEPT !.processed = @ \cup {name}])} :
       \E reyield \in IF r.outcome = "renamed" THEN BOOLEAN ELSE {FALSE} :
           /\ fs' = r.fs
           /\ api_cache' = r.cache
           /\ iter' = IF reyield /\ r.outcome = "renamed" /\ iter.again < MaxReyields
                      THEN [todo |-> (iter.todo \ {name}) \cup {r.target},
                            again |-> iter.again + 1]
                      ELSE [iter EXCEPT !.todo = @ \ {name}]
           /\ last' = [path |-> name, target |-> r.target, outcome |-> r.outcome,
                       prev |-> IF /\ fs[name].id \in DOMAIN hist
                                   /\ hist[fs[name].id].answers = r.answers
                                THEN hist[fs[name].id].outcome ELSE "none"]
           /\ hist' = IF r.outcome # "unreadable"
                      THEN (fs[name].id :> [answers |-> r.answers, target |-> r.target,
                                            outcome |-> r.outcome]) @@ hist
                      ELSE hist
           /\ log' = h.log
           /\ IF h.abort THEN Fail ELSE pc' = pc /\ exit' = exit
    /\ UNCHANGED <<env, category_map, sent, ret, infoVars, labelVars>>

\* main.rs 244-246: the iterator is exhausted
Finish ==
    /\ pc = "loop" /\ iter.todo = {}
    /\ pc' = "done" /\ exit' = "success"
    /\ UNCHANGED <<env, category_map, fs, iter, last, hist, log, api_cache, sent, ret, infoVars, labelVars>>

\* the program is started again on the directory as the last run left it:
\* a new process, with a new AppState
Restart ==
    /\ pc = "done" /\ env.run < MaxRuns
    /\ pc' = "start" /\ exit' = "none"
    /\ env' = [env EXCEPT !.run = @ + 1, !.dir0 = fs]
    /\ category_map' = <<>> /\ api_cache' = <<>>
    /\ iter' = NoIter /\ log' = NoLog /\ last' = NoLast
    /\ UNCHANGED <<fs, hist, sent, ret, infoVars, labelVars>>

NextRun ==
    \/ \E c \in {"absent", "unreadable", "malformed", "ok"} : LoadCategoryMap(c)
    \/ \E e, f, c \in BOOLEAN : InitDb(e, f, c)
    \/ \E d, r \in BOOLEAN : OpenDir(d, r)
    \/ EntryError
    \/ \E n \in iter.todo : SkipEntry(n)
    \/ \E n \in iter.todo, db_up, rename_ok \in BOOLEAN, net_kind \in NetKinds :
          ProcessEntry(n, db_up, net_kind, rename_ok)
    \/ Finish

SpecRun == InitRun /\ [][NextRun]_vars

----------------------------------------------------------------------------
(* SpecRerun: runs of main one after the other over one directory, in an    *)
(* environment without categories.json where start-up and the directory     *)
(* listing succeed                                                          *)

RerunNames == {<<"a", ".", "j", "a", "r">>, <<"L", "-">> \o S_ver \o S_jar}
RerunDirs ==
    { d \in [RerunNames -> {e \in Entries : e.id \in 1..3}] :
        \A m, n \in DOMAIN d : d[m] = d[n] => m = n }

InitRerun == StartIn(RerunDirs)

NextRerun ==
    \/ LoadCategoryMap("absent")
    \/ InitDb(TRUE, TRUE, TRUE)
    \/ OpenDir(TRUE, TRUE)
    \/ \E n \in iter.todo, db_up, rename_ok \in BOOLEAN, net_kind \in NetKinds :
          ProcessEntry(n, db_up, net_kind, rename_ok)
    \/ Finish
    \/ Restart

SpecRerun == InitRerun /\ [][NextRerun]_vars

----------------------------------------------------------------------------
(* Claims about get_modrinth_data, under SpecApi *)

\* C1: at most one network query is ever issued for a mod identifier,
\* whatever the outcome of the first one.
C1_AtMostOneQuery == \A id \in ModIds : sent[id] <= 1

\* C2: a call for an identifier that is a key of the cache returns the cached
\* value (a record or "no record"), sends no request and leaves the cache as
\* it is.
C2_HitReturnsCached ==
    [][ret'.mod_id \in DOMAIN api_cache =>
          /\ ret'.hit
          /\ ret'.data = api_cache[ret'.mod_id]
          /\ api_cache' = api_cache
          /\ sent' = sent]_vars

\* a hit on a cached negative result, after the one request that cached it
C2_Witness ==
    /\ ret.hit /\ ret.data = None
    /\ ret.mod_id \in DOMAIN api_cache /\ sent[ret.mod_id] = 1

----------------------------------------------------------------------------
(* Claims about the resolver, under SpecLabel *)

NonEmpty(o) == IsSome(o) /\ Unwrap(o) # <<>>

\* C6: the name is the first non-empty value among localized name, display
\* name and mod identifier, over absent / empty / non-empty for both options.
C6_FirstNonEmpty ==
    IsSome(label) =>
        Unwrap(label).final_name =
            IF NonEmpty(lin.db) THEN Unwrap(lin.db)
            ELSE IF NonEmpty(lin.modinfo.display_name)
                 THEN Unwrap(lin.modinfo.display_name)
            ELSE lin.modinfo.mod_id

SideTable ==
    { <<"required", "required", <<"[", "C", "&", "S", "]">> >>,
      <<"optional", "optional", <<"[", "C", "|", "S", "]">> >>,
      <<"unsupported", "unsupported", <<"[", "T", "o", "x", "i", "c", "]">> >>,
      <<"required", "optional", <<"[", "C", "]">> >>,
      <<"optional", "required", <<"[", "S", "]">> >>,
      <<"required", "unsupported", <<"[", "!", "S", "]">> >>,
      <<"unsupported", "required", <<"[", "!", "C", "]">> >> }

\* C7: the side tag is the table's entry for a listed (client_side,
\* server_side) pair, and empty for every other pair and without a record.
C7_SideTagTable ==
    IsSome(label) =>
        LET tag == Unwrap(label).side_tag
        IN  IF IsSome(lin.data)
            THEN LET c == Unwrap(lin.data).client_side
                     v == Unwrap(lin.data).server_side
                     rows == {r \in SideTable : r[1] = c /\ r[2] = v}
                 IN  /\ \A r \in rows : tag = r[3]
                     /\ rows = {} => tag = <<>>
            ELSE tag = <<>>

\* an unlisted pair of known values, and a listed one
C7_Witness ==
    /\ IsSome(label) /\ IsSome(lin.data)
    /\ Unwrap(lin.data).client_side = "optional"
    /\ Unwrap(lin.data).server_side = "unsupported"
    /\ Unwrap(label).side_tag = <<>>

RECURSIVE Bracketed(_)
Bracketed(ts) ==
    IF ts = <<>> THEN <<>>
    ELSE <<"[">> \o Head(ts) \o <<"]">> \o Bracketed(Tail(ts))

\* C8: the category tag is one bracketed element per category, in the
\* record's order, the map's value when the map has the category and the
\* category itself otherwise; empty for no categories and for no record.
C8_CategoryTag ==
    IsSome(label) =>
        LET tag == Unwrap(label).category_tag
        IN  IF IsSome(lin.data)
            THEN LET cats == Unwrap(lin.data).categories
                     elem(i) == IF cats[i] \in DOMAIN lin.cmap
                                THEN lin.cmap[cats[i]] ELSE cats[i]
                 IN  tag = Bracketed([i \in 1..Len(cats) |-> elem(i)])
            ELSE tag = <<>>

\* two categories, the second translated and the first not
C8_Witness ==
    /\ IsSome(label) /\ IsSome(lin.data)
    /\ Unwrap(lin.data).categories = << <<"b">>, <<"a">> >>
    /\ DOMAIN lin.cmap = {<<"a">>}
    /\ Unwrap(label).category_tag = <<"[", "b", "]", "[", "A", "]">>

----------------------------------------------------------------------------
(* Claims about get_mod_info, under SpecInfo *)

Extractable == archive.readable /\ archive.toml = "ok" /\ archive.mods # <<>>

IsIV(l) == ~l.err /\ StartsWith(l.text, S_implver)
HasIV(ls) == \E i \in 1..Len(ls) : IsIV(ls[i])
FirstIV(ls) == CHOOSE i \in 1..Len(ls) : IsIV(ls[i]) /\ \A j \in 1..(i - 1) : ~IsIV(ls[j])
BadBefore(ls, i) == \E j \in 1..(i - 1) : ls[j].err
BadBeforeIV(ls) == HasIV(ls) /\ BadBefore(ls, FirstIV(ls))

\* r is t without its leading and trailing white space
IsTrimOf(r, t) ==
    \E i \in 1..(Len(t) + 1), j \in 0..Len(t) :
        /\ r = SubSeq(t, i, j)
        /\ \A k \in 1..Len(t) : (k < i \/ k > j) => t[k] \in White
        /\ r # <<>> => (r[1] \notin White /\ r[Len(r)] \notin White)

\* the part of an Implementation-Version: line after its first colon
Remainder(l) == SubSeq(l.text, Len(S_implver) + 1, Len(l.text))

\* C9 as stated: with the placeholder as declared version, a manifest that
\* has an Implementation-Version: line gives the trimmed remainder of the
\* first such line, a missing manifest or one without such a line gives
\* "unknown"; any other declared version passes through.
C9_VersionAsStated ==
    (IsSome(info) /\ Extractable) =>
        LET m == archive.mods[1]
            r == Unwrap(info)
        IN  /\ r.ok
            /\ IF m.version # S_placeholder THEN r.val.version = m.version
               ELSE IF IsSome(archive.manifest) /\ HasIV(Unwrap(archive.manifest))
               THEN LET ls == Unwrap(archive.manifest)
                    IN  IsTrimOf(r.val.version, Remainder(ls[FirstIV(ls)]))
               ELSE r.val.version = S_unknown

\* C9 amended: the remainder is taken when every manifest line before the
\* first Implementation-Version: line could be read; a line that fails to
\* read before it gives "unknown", like a missing manifest or no such line.
C9_Version ==
    (IsSome(info) /\ Extractable) =>
        LET m == archive.mods[1]
            r == Unwrap(info)
        IN  /\ r.ok
            /\ IF m.version # S_placeholder THEN r.val.version = m.version
               ELSE IF /\ IsSome(archive.manifest)
                       /\ HasIV(Unwrap(archive.manifest))
                       /\ ~BadBeforeIV(Unwrap(archive.manifest))
               THEN LET ls == Unwrap(archive.manifest)
                    IN  IsTrimOf(r.val.version, Remainder(ls[FirstIV(ls)]))
               ELSE r.val.version = S_unknown

\* the placeholder resolved from the second line of the manifest, the
\* remainder holding a colon and white space at its end
C9_Witness ==
    /\ IsSome(info) /\ Extractable
    /\ archive.mods[1].version = S_placeholder
    /\ archive.manifest =
          Some(<< Line(<<"M", ":", " ", "1">>), Line(S_implver \o <<"2", ":", "3", " ">>) >>)
    /\ Unwrap(info).ok /\ Unwrap(info).val.version = <<"2", ":", "3">>

----------------------------------------------------------------------------
(* Claims about main's batch loop, under SpecRun *)

Failed == {"unreadable", "rename_failed"}
AllProcessed == log.listed \subseteq log.processed

\* C3: a failure of process_file on one .jar (archive or metadata unusable,
\* rename failure) is logged and does not abort the run: the run fails
\* afterwards only if the directory iterator itself fails, and otherwise
\* ends in success with every listed .jar processed.
C3_BatchContinues ==
    /\ last.outcome \in Failed => log.errors > 0
    /\ (last.outcome \in Failed \/ log.errors > 0) =>
          /\ exit = "failure" => log.entry_err
          /\ (pc = "done" /\ ~log.entry_err) => (exit = "success" /\ AllProcessed)

\* a run that logged an error, renamed a later file and ended in success
C3_Witness ==
    /\ pc = "done" /\ exit = "success" /\ log.errors > 0
    /\ last.outcome = "renamed" /\ Cardinality(log.listed) >= 2

\* C4 as stated: the process fails only when the target is no directory or
\* the translation store fails to initialize; otherwise (whatever the
\* state of categories.json) it processes every .jar and succeeds.
C4_ExitAsStated ==
    /\ exit = "failure" => (~env.is_dir \/ ~env.db_ok)
    /\ (pc = "done" /\ env.is_dir /\ env.db_ok) => (exit = "success" /\ AllProcessed)

FatalCause ==
    \/ env.catfile \in {"unreadable", "malformed"}
    \/ ~env.db_ok
    \/ ~env.is_dir
    \/ ~env.read_dir_ok
    \/ log.entry_err

\* C4 amended: the process fails only when categories.json exists but
\* cannot be read or parsed, the translation store fails to initialize, the
\* target is no directory, or listing the directory fails (read_dir or one
\* of its entries); otherwise, an absent categories.json included, it
\* processes every .jar and succeeds.
C4_ExitStatus ==
    /\ exit = "failure" => FatalCause
    /\ (pc = "done" /\ ~FatalCause) => (exit = "success" /\ AllProcessed)

\* success without categories.json, two .jar files listed, one of them failing
C4_Witness ==
    /\ pc = "done" /\ exit = "success" /\ env.catfile = "absent"
    /\ category_map = <<>> /\ Cardinality(log.listed) = 2 /\ log.errors = 1

FilesKept ==
    /\ Cardinality(DOMAIN fs) = Cardinality(DOMAIN env.dir0)
    /\ {fs[n] : n \in DOMAIN fs} = {env.dir0[n] : n \in DOMAIN env.dir0}

\* the step is a call of process_file whose target is its own path or is taken
TargetTaken ==
    /\ last'.path \in DOMAIN fs
    /\ last'.outcome \notin {"none", "unreadable"}
    /\ (last'.target = last'.path \/ last'.target \in DOMAIN fs)

\* C5: with the target equal to the source or taken by another file,
\* process_file renames nothing, returns Ok and leaves every file as it is;
\* so at every point of a run the directory holds the files it held at the
\* start, none overwritten, and as many of them.
C5_NonDestructive ==
    /\ []FilesKept
    /\ [][TargetTaken =>
            /\ fs' = fs
            /\ last'.outcome \in {"same", "skipped"}
            /\ log'.errors = log.errors]_vars

\* an archive skipped because another archive of the same mod was renamed
\* to their common target earlier in the run
C5_Witness ==
    /\ last.outcome = "skipped"
    /\ last.path \in DOMAIN fs /\ last.target \in DOMAIN fs
    /\ last.target \notin DOMAIN env.dir0
    /\ fs[last.path].kind = "file" /\ fs[last.target].kind = "file"
    /\ fs[last.path].id # fs[last.target].id
    /\ ArchivePool[fs[last.path].id] = ArchivePool[fs[last.target].id]

----------------------------------------------------------------------------
(* Claims about repeated processing, under SpecRerun *)

\* the step is a call of process_file on an archive whose last handling
\* renamed or skipped it, with the answers of that handling
Reprocessed ==
    /\ last'.path \in DOMAIN fs
    /\ fs[last'.path].id \in DOMAIN hist
    /\ hist[fs[last'.path].id].outcome \in {"renamed", "skipped"}
    /\ hist'[fs[last'.path].id].answers = hist[fs[last'.path].id].answers

\* C10 as stated: an archive that process_file has renamed, or skipped
\* because its target was taken, is left alone, like every other file, when
\* it is processed again with the same answers: in the same run under its
\* new name, or in a second run.
C10_IdempotentAsStated == [][Reprocessed => fs' = fs]_vars

\* C10 amended: processing again with the same answers changes no file
\* when the last handling renamed the archive, and when it skipped the
\* archive and the target is still taken; a skipped archive whose target
\* has been freed since (the file there renamed away) is renamed.
C10_Idempotent ==
    [][(/\ Reprocessed
        /\ hist[fs[last'.path].id].outcome = "skipped"
              => hist[fs[last'.path].id].target \in DOMAIN fs)
       => fs' = fs]_vars

\* second run: an archive renamed by the first run is processed with the
\* same answers and stays where it is
C10_Witness ==
    /\ env.run = 2 /\ last.prev = "renamed" /\ last.outcome = "same"
    /\ last.path \in DOMAIN fs /\ last.path \notin RerunNames

====
